---- MODULE Spec2Model ----
(***************************************************************************)
(* Model of src/src/secp256k1.rs: affine point addition and doubling on    *)
(* the curve y^2 = x^3 + 7 over F_p and the MSB-first double-and-add loop  *)
(* of pr_to_pub.                                                           *)
(*                                                                         *)
(* The 256-bit domain parameters of the source cannot be enumerated, so    *)
(* the model instantiates the same curve equation over a small field that  *)
(* keeps the structure of secp256k1 which the code paths depend on:        *)
(*   - p is prime and p = 1 (mod 3), so every y-coordinate is shared by    *)
(*     three points (x, bx, b^2 x with b a cube root of unity);            *)
(*   - the group has prime order n, so there is no point with y = 0 and    *)
(*     none with x = 0: (0,0) is free to be the identity sentinel;         *)
(*   - the two non-trivial roots lambda, lambda^2 of z^2 + z + 1 (mod n),  *)
(*     for which lambda*G = (b*G.x, G.y), are both even integers, as they  *)
(*     are for secp256k1 (lambda = 0x5363...bd72, n-1-lambda = ...83ce).   *)
(* With p = 13 the curve has n = 7 points, lambda = 2, lambda^2 = 4.       *)
(***************************************************************************)
EXTENDS Integers, Sequences, FiniteSets, TLC

\* Width of a scalar in bits (256 in the source: [u8; 32]).
ScalarBits == 4

----------------------------------------------------------------------------
(* Curve parameters *)

p == 13

g == <<7, 5>>

n == 7

zero_point == <<0, 0>>

is_zero_point(pt) == pt[1] = 0 /\ pt[2] = 0

Field == 0 .. (p - 1)

Point == Field \X Field

Scalar == 0 .. (2 ^ ScalarBits - 1)

----------------------------------------------------------------------------
(* Field arithmetic of the RU256 collaborator (crate::ru256, not in src/). *)

sub_mod(a, b, m) == ((a % m) + m - (b % m)) % m

mul_mod(a, b, m) == ((a % m) * (b % m)) % m

\* A division either yields a field element or does not return.
Quot(v) == [ok |-> TRUE, v |-> v]

DivPanic == [ok |-> FALSE, v |-> 0]

\* a / b = a * b^-1 (mod m).  A zero divisor has no inverse: what the
\* collaborator does then is not fixed by its contract, so every outcome
\* (any field element, or no return at all) is possible.
div_mod(a, b, m) ==
    IF b % m = 0
    THEN {Quot(q) : q \in 0 .. (m - 1)} \cup {DivPanic}
    ELSE {Quot(mul_mod(a, CHOOSE i \in 1 .. (m - 1) : (i * b) % m = 1, m))}

----------------------------------------------------------------------------
(* Outcome of a call: a returned point or a panic, with the lines the     *)
(* call printed on standard output.                                        *)

Line(tag, i, d) == [tag |-> tag, step |-> i, bit |-> d]

Ok(pt, lines) == [st |-> "ok", why |-> "none", pt |-> pt, out |-> lines]

Panic(why, lines) == [st |-> "panic", why |-> why, pt |-> zero_point, out |-> lines]

----------------------------------------------------------------------------
(* Point addition *)

\* add_points with the identity tests dropped.
add_points_no_identity(pt1, pt2) ==
    LET printed == <<Line("adding", 0, 0)>> IN
    IF pt1[2] = pt2[2] THEN {Panic("assert", printed)}
    ELSE
      LET y_diff == sub_mod(pt1[2], pt2[2], p)
          x_diff == sub_mod(pt1[1], pt2[1], p)
          x3(lambda) == sub_mod(sub_mod(mul_mod(lambda, lambda, p), pt1[1], p), pt2[1], p)
          y3(lambda) == sub_mod(mul_mod(sub_mod(pt1[1], x3(lambda), p), lambda, p), pt1[2], p)
      IN  {IF q.ok THEN Ok(<<x3(q.v), y3(q.v)>>, printed) ELSE Panic("div", printed)
             : q \in div_mod(y_diff, x_diff, p)}

\* add_points asserting on the x-coordinates instead of the y-coordinates.
add_points_assert_x(pt1, pt2) ==
    LET printed == <<Line("adding", 0, 0)>> IN
    IF pt1[1] = pt2[1] THEN {Panic("assert", printed)}
    ELSE IF is_zero_point(pt1) THEN {Ok(pt2, printed)}
    ELSE IF is_zero_point(pt2) THEN {Ok(pt1, printed)}
    ELSE
      LET y_diff == sub_mod(pt1[2], pt2[2], p)
          x_diff == sub_mod(pt1[1], pt2[1], p)
          x3(lambda) == sub_mod(sub_mod(mul_mod(lambda, lambda, p), pt1[1], p), pt2[1], p)
          y3(lambda) == sub_mod(mul_mod(sub_mod(pt1[1], x3(lambda), p), lambda, p), pt1[2], p)
      IN  {IF q.ok THEN Ok(<<x3(q.v), y3(q.v)>>, printed) ELSE Panic("div", printed)
             : q \in div_mod(y_diff, x_diff, p)}

add_points(pt1, pt2) ==
    LET printed == <<Line("adding", 0, 0)>> IN
    IF pt1[2] = pt2[2] THEN {Panic("assert", printed)}
    ELSE IF is_zero_point(pt1) THEN {Ok(pt2, printed)}
    ELSE IF is_zero_point(pt2) THEN {Ok(pt1, printed)}
    ELSE
      LET y_diff == sub_mod(pt1[2], pt2[2], p)
          x_diff == sub_mod(pt1[1], pt2[1], p)
          x3(lambda) == sub_mod(sub_mod(mul_mod(lambda, lambda, p), pt1[1], p), pt2[1], p)
          y3(lambda) == sub_mod(mul_mod(sub_mod(pt1[1], x3(lambda), p), lambda, p), pt1[2], p)
      IN  {IF q.ok THEN Ok(<<x3(q.v), y3(q.v)>>, printed) ELSE Panic("div", printed)
             : q \in div_mod(y_diff, x_diff, p)}

(* Point doubling *)

\* double_point with the slope 3x^2 / y (the factor 2 forgotten).
double_point_slope_y(pt) ==
    LET printed == <<Line("doubling", 0, 0)>> IN
    IF is_zero_point(pt) THEN {Ok(zero_point, printed)}
    ELSE IF pt[2] = 0 THEN {Ok(zero_point, printed)}
    ELSE
      LET x1_2_3 == mul_mod(mul_mod(pt[1], pt[1], p), 3, p)
          x3(lambda) == sub_mod(sub_mod(mul_mod(lambda, lambda, p), pt[1], p), pt[1], p)
          y3(lambda) == sub_mod(mul_mod(sub_mod(pt[1], x3(lambda), p), lambda, p), pt[2], p)
      IN  {IF q.ok THEN Ok(<<x3(q.v), y3(q.v)>>, printed) ELSE Panic("div", printed)
             : q \in div_mod(x1_2_3, pt[2], p)}

double_point(pt) ==
    LET printed == <<Line("doubling", 0, 0)>> IN
    IF is_zero_point(pt) THEN {Ok(zero_point, printed)}
    ELSE IF pt[2] = 0 THEN {Ok(zero_point, printed)}
    ELSE
      LET two_y == mul_mod(pt[2], 2, p)
          x1_2_3 == mul_mod(mul_mod(pt[1], pt[1], p), 3, p)
          x3(lambda) == sub_mod(sub_mod(mul_mod(lambda, lambda, p), pt[1], p), pt[1], p)
          y3(lambda) == sub_mod(mul_mod(sub_mod(pt[1], x3(lambda), p), lambda, p), pt[2], p)
      IN  {IF q.ok THEN Ok(<<x3(q.v), y3(q.v)>>, printed) ELSE Panic("div", printed)
             : q \in div_mod(x1_2_3, two_y, p)}

----------------------------------------------------------------------------
(* Scalar decomposition: to_bytes then bytes_to_binary give the bits of    *)
(* the scalar, most significant first, over the whole width.               *)

bytes_to_binary(pr) ==
    [i \in 1 .. ScalarBits |-> (pr \div (2 ^ (ScalarBits - i))) % 2]

\* One iteration of the loop of pr_to_pub on bit d, from accumulator `base`
\* and flag `on`: the set of possible results [st, why, pt, out, on].
LoopBody(base, on, step, d) ==
    LET head == <<Line("step", step, d)>>
        doubled == IF on THEN double_point(base) ELSE {Ok(base, <<>>)}
        After(dr) ==
            IF dr.st = "panic" THEN {dr}
            ELSE IF d > 0
                 THEN {[ar EXCEPT !.out = dr.out \o ar.out] : ar \in add_points(dr.pt, g)}
                 ELSE {dr}
    IN  {[st |-> r.st, why |-> r.why, pt |-> r.pt, out |-> head \o r.out,
          on |-> (on \/ d > 0)] : r \in UNION {After(dr) : dr \in doubled}}

----------------------------------------------------------------------------
(* State: one call of the public API, observed from outside.               *)

VARIABLES
    pc,       \* "idle", "loop" (inside pr_to_pub), "done", "panicked"
    op,       \* the function called: "none", "add", "double", "pr_to_pub"
    pt1, pt2, \* the arguments of add_points / double_point (pt1 only)
    pr,       \* the argument of pr_to_pub
    binaries, \* pr_to_pub: the bits of pr
    step,     \* pr_to_pub: index of the next bit
    base,     \* pr_to_pub: the accumulator
    on,       \* pr_to_pub: a 1-bit has been seen
    ret,      \* the returned point (meaningful when pc = "done")
    why,      \* the reason of a panic: "assert", "div", else "none"
    out       \* standard output of the process

vars == <<pc, op, pt1, pt2, pr, binaries, step, base, on, ret, why, out>>

Init ==
    /\ pc = "idle"
    /\ op = "none"
    /\ pt1 = zero_point
    /\ pt2 = zero_point
    /\ pr = 0
    /\ binaries = bytes_to_binary(0)
    /\ step = 0
    /\ base = zero_point
    /\ on = FALSE
    /\ ret = zero_point
    /\ why = "none"
    /\ out = <<>>

Finish(r) ==
    /\ pc' = IF r.st = "ok" THEN "done" ELSE "panicked"
    /\ ret' = r.pt
    /\ why' = r.why
    /\ out' = out \o r.out

CallAddPoints ==
    /\ pc = "idle"
    /\ \E a \in Point, b \in Point :
         /\ op' = "add"
         /\ pt1' = a
         /\ pt2' = b
         /\ \E r \in add_points(a, b) : Finish(r)
    /\ UNCHANGED <<pr, binaries, step, base, on>>

CallDoublePoint ==
    /\ pc = "idle"
    /\ \E a \in Point :
         /\ op' = "double"
         /\ pt1' = a
         /\ \E r \in double_point(a) : Finish(r)
    /\ UNCHANGED <<pt2, pr, binaries, step, base, on>>

\* pr_to_pub, lines 134-144: decompose the scalar, initialise the loop.
PrToPubStart ==
    /\ pc = "idle"
    /\ \E s \in Scalar :
         /\ pr' = s
         /\ binaries' = bytes_to_binary(s)
    /\ op' = "pr_to_pub"
    /\ pc' = "loop"
    /\ base' = zero_point
    /\ on' = FALSE
    /\ step' = 0
    /\ UNCHANGED <<pt1, pt2, ret, why, out>>

\* pr_to_pub, lines 145-155: one iteration of the loop.
PrToPubStep ==
    /\ pc = "loop"
    /\ step < ScalarBits
    /\ \E r \in LoopBody(base, on, step, binaries[step + 1]) :
         /\ out' = out \o r.out
         /\ IF r.st = "ok"
            THEN /\ base' = r.pt
                 /\ on' = r.on
                 /\ step' = step + 1
                 /\ UNCHANGED <<pc, why>>
            ELSE /\ pc' = "panicked"
                 /\ why' = r.why
                 /\ UNCHANGED <<base, on, step>>
    /\ UNCHANGED <<op, pt1, pt2, pr, binaries, ret>>

\* pr_to_pub, line 157: return the accumulator.
PrToPubReturn ==
    /\ pc = "loop"
    /\ step = ScalarBits
    /\ pc' = "done"
    /\ ret' = base
    /\ UNCHANGED <<op, pt1, pt2, pr, binaries, step, base, on, why, out>>

Next ==
    \/ CallAddPoints
    \/ CallDoublePoint
    \/ PrToPubStart
    \/ PrToPubStep
    \/ PrToPubReturn

Spec == Init /\ [][Next]_vars

----------------------------------------------------------------------------
(* Reference group law, independent of the formulas above: the sum of P    *)
(* and Q is the reflection of the third intersection of the curve with     *)
(* the line through P and Q (the tangent when P = Q).                      *)

OnCurve(P) == (P[2] * P[2]) % p = (P[1] * P[1] * P[1] + 7) % p

CurvePoints == {P \in Point : OnCurve(P)}

GroupElements == CurvePoints \cup {zero_point}

RefNeg(P) == IF is_zero_point(P) THEN P ELSE <<P[1], (p - P[2]) % p>>

\* Slopes m of the line through P and Q: m*(x2 - x1) = y2 - y1, or of the
\* tangent at P: 2*y*m = 3*x^2.
RefSlopes(P, Q) ==
    {m \in Field :
        IF P[1] # Q[1]
        THEN (m * (Q[1] + p - P[1])) % p = (Q[2] + p - P[2]) % p
        ELSE (2 * P[2] * m) % p = (3 * P[1] * P[1]) % p}

\* x^3 + 7 - (m*(x - x1) + y1)^2 = (x - x1)*(x - x2)*(x - x3) for all x.
RefThirdRoot(P, Q, m, x3) ==
    \A x \in Field :
        LET ly == (m * (x + p - P[1]) + P[2]) % p
        IN  (x * x * x + 7 + p * p - ly * ly) % p
              = ((x + p - P[1]) * (x + p - Q[1]) * (x + p - x3)) % p

RefAdd(P, Q) ==
    IF is_zero_point(P) THEN Q
    ELSE IF is_zero_point(Q) THEN P
    ELSE IF Q = RefNeg(P) THEN zero_point
    ELSE CHOOSE R \in CurvePoints :
           \E m \in RefSlopes(P, Q) :
              /\ RefThirdRoot(P, Q, m, R[1])
              /\ (R[2] + m * (R[1] + p - P[1]) + P[2]) % p = 0

RECURSIVE RefMul(_)
RefMul(k) == IF k = 0 THEN zero_point ELSE RefAdd(RefMul(k - 1), g)

\* The reference is a group of order n generated by g.
RefSane ==
    /\ Cardinality(GroupElements) = n
    /\ {RefMul(k) : k \in 0 .. (n - 1)} = GroupElements
    /\ RefMul(n) = zero_point
    /\ \A P \in GroupElements, Q \in GroupElements :
          /\ RefAdd(P, Q) \in GroupElements
          /\ RefAdd(P, Q) = RefAdd(Q, P)
          /\ \A R \in GroupElements : RefAdd(RefAdd(P, Q), R) = RefAdd(P, RefAdd(Q, R))

----------------------------------------------------------------------------
(* Properties *)

Returned == pc = "done"

Finished == pc \in {"done", "panicked"}

\* The lines a run of pr_to_pub prints when, bit by bit from the most
\* significant, it doubles for every bit after the first 1-bit and then adds
\* on every 1-bit.
RECURSIVE ExpectedTrace(_, _, _)
ExpectedTrace(bits, i, seen) ==
    IF i > Len(bits) THEN <<>>
    ELSE <<Line("step", i - 1, bits[i])>>
           \o (IF seen THEN <<Line("doubling", 0, 0)>> ELSE <<>>)
           \o (IF bits[i] = 1 THEN <<Line("adding", 0, 0)>> ELSE <<>>)
           \o ExpectedTrace(bits, i + 1, seen \/ bits[i] = 1)

CountTag(lines, tag) == Cardinality({i \in DOMAIN lines : lines[i].tag = tag})

HighBit(s) == CHOOSE i \in 0 .. (ScalarBits - 1) : 2 ^ i <= s /\ s < 2 ^ (i + 1)

PopCount(s) == Cardinality({i \in 1 .. ScalarBits : bytes_to_binary(s)[i] = 1})

\* C1: for every scalar of the scalar width, pr_to_pub(s) returns the point
\* s*G that the reference group law gives.
C1_PrToPubIsScalarMul ==
    (op = "pr_to_pub" /\ Finished) => (Returned /\ ret = RefMul(pr))

\* C2: add(P, identity) = P and add(identity, P) = P, without aborting, for
\* every on-curve point P and for the identity itself.
C2_IdentityLaw ==
    (op = "add" /\ Finished /\ pt1 \in GroupElements /\ pt2 \in GroupElements
       /\ (is_zero_point(pt1) \/ is_zero_point(pt2)))
    => (Returned /\ ret = (IF is_zero_point(pt2) THEN pt1 ELSE pt2))

\* C3: for every on-curve P with P.y # 0, add(P, P) returns a point and it
\* is the point double(P) returns.
C3_DoublingConsistency ==
    (op = "add" /\ Finished /\ pt1 = pt2 /\ OnCurve(pt1) /\ pt1[2] # 0)
    => (Returned /\ \E d \in double_point(pt1) : d.st = "ok" /\ d.pt = ret)

\* C4: for P1, P2 on the curve or the identity with y1 # y2, add(P1, P2)
\* returns the group sum P1 + P2, which is on the curve or the identity.
C4_AddIsGroupSum ==
    (op = "add" /\ Finished /\ pt1 \in GroupElements /\ pt2 \in GroupElements
       /\ pt1[2] # pt2[2])
    => (Returned /\ ret = RefAdd(pt1, pt2) /\ ret \in GroupElements)

\* C5: double(P) returns the identity when P is the identity or P.y = 0, and
\* for every other on-curve P returns (x3, y3) with lambda = 3x^2 / (2y),
\* x3 = lambda^2 - 2x, y3 = lambda*(x - x3) - y, which is on the curve and is
\* the group-law double of P.
C5_DoubleIsGroupDouble ==
    (op = "double" /\ pc # "idle")
    => /\ (is_zero_point(pt1) \/ pt1[2] = 0) => (Returned /\ ret = zero_point)
       /\ (OnCurve(pt1) /\ pt1[2] # 0) =>
            /\ Returned
            /\ ret = RefAdd(pt1, pt1)
            /\ OnCurve(ret)
            /\ \E lambda \in Field :
                 /\ (lambda * 2 * pt1[2]) % p = (3 * pt1[1] * pt1[1]) % p
                 /\ ret[1] = (lambda * lambda + 2 * p - 2 * pt1[1]) % p
                 /\ ret[2] = (lambda * (pt1[1] + p - ret[1]) + p - pt1[2]) % p

C5_Witness ==
    op = "double" /\ Returned /\ pt1 = RefMul(2) /\ ret = RefMul(4)

\* C6: pr_to_pub(0) returns the identity and pr_to_pub(1) returns G, neither
\* aborts, and the loop always has a next step until it returns.
C6_BaseCases ==
    (op = "pr_to_pub" /\ pr \in {0, 1})
    => /\ pc # "panicked"
       /\ pc = "loop" => (ENABLED PrToPubStep \/ ENABLED PrToPubReturn)
       /\ Returned => ret = (IF pr = 0 THEN zero_point ELSE g)

C6_Witness ==
    op = "pr_to_pub" /\ pr = 1 /\ Returned /\ ret = g

\* C7: add, double and pr_to_pub emit no diagnostic output: the output
\* stream of the process stays as it was, and the arguments are not changed.
C7_NoDiagnosticOutput == out = <<>>

C9_OperationOrder ==
    (op = "pr_to_pub" /\ Finished)
    => /\ out = ExpectedTrace(binaries, 1, FALSE)
       /\ pr > 0 => /\ CountTag(out, "doubling") = HighBit(pr)
                    /\ CountTag(out, "adding") = PopCount(pr)

\* The ordering of C9 on the runs that return.
TraceOfReturnedRuns ==
    (op = "pr_to_pub" /\ Returned)
    => /\ out = ExpectedTrace(binaries, 1, FALSE)
       /\ pr > 0 => /\ CountTag(out, "doubling") = HighBit(pr)
                    /\ CountTag(out, "adding") = PopCount(pr)

\* C10: for every scalar s with 1 <= s < n, pr_to_pub(s) never aborts and
\* never adds G to a point with the x-coordinate or the y-coordinate of G.
C10_ValidScalarsNeverAbort ==
    (op = "pr_to_pub" /\ 1 <= pr /\ pr < n)
    => /\ pc # "panicked"
       /\ (pc = "loop" /\ step < ScalarBits /\ on /\ binaries[step + 1] = 1)
            => \A d \in double_point(base) :
                  d.st = "ok" /\ d.pt[1] # g[1] /\ d.pt[2] # g[2]

====
